---- MODULE Spec2Model ----
(***************************************************************************)
(* Model of alipour/crawler_practice_with_playwright/test1.py:             *)
(*   extract_links_from_xml  - fetch/read, parse, recursive find_links,    *)
(*                             sorted result, the four except clauses      *)
(*   run                     - the browser routine that calls it           *)
(* Python strings are sequences of one-character strings, compared by code *)
(* point as Python compares them.                                          *)
(***************************************************************************)
EXTENDS Integers, Sequences, FiniteSets, TLC

(***************************************************************************)
(* Strings                                                                 *)
(***************************************************************************)

\* The characters of the model's strings, in ascending code-point order.
AsciiOrder ==
  <<"\n"," ","-",".","/","0","1","2","3","4","5","6","7","8","9",":","[",
    "a","b","c","d","e","f","g","h","i","j","k","l","m","n","o","p","q","r",
    "s","t","u","v","w","x","y","z","{","}">>

Ord(c) == CHOOSE i \in 1..Len(AsciiOrder) : AsciiOrder[i] = c

Whitespace == {" ", "\n"}

Alpha == {AsciiOrder[i] : i \in 18..43}

Digits == {AsciiOrder[i] : i \in 6..15}

\* urllib.parse.scheme_chars, restricted to the model's characters
SchemeChars == Alpha \cup Digits \cup {"-", "."}

Take(s, n) == SubSeq(s, 1, n)

Drop(s, n) == SubSeq(s, n + 1, Len(s))

Last(s) == s[Len(s)]

Has(s, c) == \E i \in 1..Len(s) : s[i] = c

\* str.find(c) + 1: the first position of c in s, 0 when absent
IndexOf(s, c) ==
  IF Has(s, c) THEN CHOOSE i \in 1..Len(s) : s[i] = c /\ \A k \in 1..(i-1) : s[k] # c
  ELSE 0

\* str.split(c)
RECURSIVE Split(_, _)
Split(s, c) ==
  LET Cut(i) == IF i = 0 THEN <<s>> ELSE <<Take(s, i - 1)>> \o Split(Drop(s, i), c)
  IN Cut(IndexOf(s, c))

\* c.join(parts)
RECURSIVE Join(_, _)
Join(parts, c) ==
  IF Len(parts) = 0 THEN <<>>
  ELSE IF Len(parts) = 1 THEN parts[1]
  ELSE parts[1] \o <<c>> \o Join(Tail(parts), c)

RECURSIVE LStrip(_)
LStrip(s) == IF Len(s) > 0 /\ s[1] \in Whitespace THEN LStrip(Tail(s)) ELSE s

RECURSIVE RStrip(_)
RStrip(s) ==
  IF Len(s) > 0 /\ Last(s) \in Whitespace THEN RStrip(Take(s, Len(s) - 1)) ELSE s

\* str.strip()
Strip(s) == RStrip(LStrip(s))

\* Python's str < str: by code point, a proper prefix is smaller
RECURSIVE StrLess(_, _)
StrLess(a, b) ==
  IF Len(b) = 0 THEN FALSE
  ELSE IF Len(a) = 0 THEN TRUE
  ELSE IF a[1] # b[1] THEN Ord(a[1]) < Ord(b[1])
  ELSE StrLess(Tail(a), Tail(b))

Smallest(S) == CHOOSE x \in S : \A y \in S \ {x} : StrLess(x, y)

\* A mutant of sorted(list(links)): the elements in descending order.
RECURSIVE SortedDescending(_)
SortedDescending(S) ==
  LET Rest(m) == SortedDescending(S \ {m}) \o <<m>>
  IN IF S = {} THEN <<>> ELSE Rest(Smallest(S))

\* sorted(list(links)), line 78
RECURSIVE Sorted(_)
Sorted(S) ==
  LET Rest(m) == <<m>> \o Sorted(S \ {m})
  IN IF S = {} THEN <<>> ELSE Rest(Smallest(S))

(***************************************************************************)
(* urllib.parse.urljoin, as line 61 calls it.  The model's strings hold no  *)
(* upper-case letter, no '?', '#', ';' or ']' and attribute values hold no  *)
(* whitespace, so lower(), query, fragment, params and the lstrip of the    *)
(* URL have nothing to act on.                                              *)
(***************************************************************************)

S_http == <<"h","t","t","p">>

S_https == <<"h","t","t","p","s">>

S_ftp == <<"f","t","p">>

S_file == <<"f","i","l","e">>

\* urllib.parse.uses_relative / uses_netloc, the entries the model can spell
UsesRelative == {<<>>, S_ftp, S_http, S_file, S_https}

UsesNetloc == {<<>>, S_ftp, S_http, S_file, S_https}

\* urlsplit after the scheme is taken off: netloc and path of `rest`;
\* raises ValueError("Invalid IPv6 URL") on '[' without ']' in the netloc
SplitNetloc(scheme, rest) ==
  LET hasNet == Len(rest) >= 2 /\ rest[1] = "/" /\ rest[2] = "/"
      d == IndexOf(Drop(rest, 2), "/")
      netloc == IF d = 0 THEN Drop(rest, 2) ELSE SubSeq(rest, 3, d + 1)
  IN IF ~hasNet
     THEN [raises |-> FALSE, scheme |-> scheme, netloc |-> <<>>, path |-> rest]
     ELSE [raises |-> Has(netloc, "["), scheme |-> scheme, netloc |-> netloc,
           path |-> IF d = 0 THEN <<>> ELSE Drop(rest, d + 1)]

\* urlsplit(url, scheme): [raises, scheme, netloc, path]
urlsplit(url, scheme) ==
  LET i == IndexOf(url, ":")
  IN IF /\ i > 1
        /\ url[1] \in Alpha
        /\ \A k \in 1..(i-1) : url[k] \in SchemeChars
     THEN SplitNetloc(Take(url, i - 1), Drop(url, i))
     ELSE SplitNetloc(scheme, url)

urlunsplit(scheme, netloc, path) ==
  LET withNet ==
        IF Len(netloc) > 0
           \/ (Len(scheme) > 0 /\ scheme \in UsesNetloc /\ Take(path, 2) # <<"/","/">>)
        THEN <<"/","/">> \o netloc
               \o (IF Len(path) > 0 /\ path[1] # "/" THEN <<"/">> ELSE <<>>) \o path
        ELSE path
  IN IF Len(scheme) > 0 THEN scheme \o <<":">> \o withNet ELSE withNet

\* filter(None, segs): the non-empty segments
RECURSIVE FilterEmpty(_)
FilterEmpty(segs) ==
  IF Len(segs) = 0 THEN <<>>
  ELSE (IF Len(segs[1]) = 0 THEN <<>> ELSE <<segs[1]>>) \o FilterEmpty(Tail(segs))

\* the loop over segments: '..' pops, '.' is skipped
RECURSIVE ResolveSegments(_, _)
ResolveSegments(segs, acc) ==
  LET Step(a) == ResolveSegments(Tail(segs), a)
  IN IF Len(segs) = 0 THEN acc
     ELSE IF segs[1] = <<".",".">>
          THEN Step(IF Len(acc) = 0 THEN acc ELSE Take(acc, Len(acc) - 1))
     ELSE IF segs[1] = <<".">> THEN ResolveSegments(Tail(segs), acc)
     ELSE Step(Append(acc, segs[1]))

\* base_parts: the base path's segments without a non-empty last one
BaseParts(parts) ==
  IF Len(Last(parts)) # 0 THEN Take(parts, Len(parts) - 1) ELSE parts

\* segments[1:-1] = filter(None, segments[1:-1])
SqueezeMiddle(segs) ==
  IF Len(segs) <= 2 THEN segs
  ELSE <<segs[1]>> \o FilterEmpty(SubSeq(segs, 2, Len(segs) - 1)) \o <<Last(segs)>>

\* the resolved path for the segments, '/' when it comes out empty
ResolvedPath(segments) ==
  LET resolved == ResolveSegments(segments, <<>>)
      joined == Join(IF Last(segments) \in {<<".">>, <<".",".">>}
                     THEN Append(resolved, <<>>) ELSE resolved, "/")
  IN IF Len(joined) = 0 THEN <<"/">> ELSE joined

\* urljoin once base (b) and url (u) are split
JoinSplit(b, u, url) ==
  IF b.raises \/ u.raises THEN [raises |-> TRUE, val |-> <<>>]
  ELSE IF u.scheme # b.scheme \/ u.scheme \notin UsesRelative
       THEN [raises |-> FALSE, val |-> url]
  ELSE IF u.scheme \in UsesNetloc /\ Len(u.netloc) > 0
       THEN [raises |-> FALSE, val |-> urlunsplit(u.scheme, u.netloc, u.path)]
  ELSE [raises |-> FALSE,
        val |-> urlunsplit(u.scheme,
                  IF u.scheme \in UsesNetloc THEN b.netloc ELSE u.netloc,
                  IF Len(u.path) = 0 THEN b.path
                  ELSE IF u.path[1] = "/" THEN ResolvedPath(Split(u.path, "/"))
                  ELSE ResolvedPath(SqueezeMiddle(BaseParts(Split(b.path, "/"))
                                                  \o Split(u.path, "/"))))]

\* A mutant of urljoin: the link is returned as it stands.
urljoinIdentity(base, url) == [raises |-> FALSE, val |-> url]

\* urljoin(base, url) for non-empty base and url: [raises, val]
urljoin(base, url) ==
  LET WithBase(b) == JoinSplit(b, urlsplit(url, b.scheme), url)
  IN WithBase(urlsplit(base, <<>>))

(***************************************************************************)
(* XML content and xml.etree.ElementTree.fromstring (line 46).  Content is  *)
(* a sequence of parser events: start tags carrying the expanded           *)
(* "{namespace}local" name and the attribute dictionary, character data,    *)
(* end tags.                                                               *)
(***************************************************************************)

Open(tag, attrib) == [k |-> "open", tag |-> tag, attrib |-> attrib]

Text(s) == [k |-> "text", s |-> s]

Close(tag) == [k |-> "close", tag |-> tag]

Elem(tag, attrib, inner) == <<Open(tag, attrib)>> \o inner \o <<Close(tag)>>

NoAttrib == <<>>

ParseStart == [nodes |-> <<>>, open |-> <<>>, last |-> 0, closed |-> FALSE, err |-> FALSE]

\* One parser event.  Character data before the first child is element.text,
\* data after a child's end tag is that child's tail (which the code never reads).
ParseStep(st, tok) ==
  IF st.err THEN st
  ELSE IF tok.k = "open" THEN
    IF st.closed THEN [st EXCEPT !.err = TRUE]
    ELSE LET id == Len(st.nodes) + 1
             node == [tag |-> tok.tag, attrib |-> tok.attrib,
                      text |-> <<>>, children |-> <<>>]
             linked == IF Len(st.open) = 0 THEN st.nodes
                       ELSE [st.nodes EXCEPT ![Last(st.open)].children = Append(@, id)]
         IN [st EXCEPT !.nodes = Append(linked, node),
                       !.open = Append(@, id), !.last = 0]
  ELSE IF tok.k = "text" THEN
    IF Len(st.open) = 0
    THEN [st EXCEPT !.err = Len(Strip(tok.s)) > 0]
    ELSE IF st.last = 0
         THEN [st EXCEPT !.nodes[Last(st.open)].text = @ \o tok.s]
         ELSE st
  ELSE
    IF Len(st.open) = 0 \/ st.nodes[Last(st.open)].tag # tok.tag
    THEN [st EXCEPT !.err = TRUE]
    ELSE [st EXCEPT !.open = Take(@, Len(@) - 1), !.last = Last(st.open),
                    !.closed = (Len(st.open) = 1)]

RECURSIVE ParseEvents(_, _)
ParseEvents(st, toks) ==
  LET Go(s) == ParseEvents(ParseStep(s, toks[1]), Tail(toks))
  IN IF Len(toks) = 0 THEN st ELSE Go(st)

\* ET.fromstring: the element table (root is element 1, ids in document order),
\* or ParseError when the content is not one well-formed element.
fromstring(content) ==
  LET st == ParseEvents(ParseStart, content)
  IN [ok |-> ~st.err /\ st.closed, nodes |-> st.nodes]

(***************************************************************************)
(* Names and values the documents of the model are built from              *)
(***************************************************************************)

SitemapNS ==
  <<"h","t","t","p",":","/","/","w","w","w",".","s","i","t","e","m","a","p","s",
    ".","o","r","g","/","s","c","h","e","m","a","s","/","s","i","t","e","m","a","p",
    "/","0",".","9">>

\* f"{{http://www.sitemaps.org/schemas/sitemap/0.9}}{tag}", line 66
SitemapQualified(tag) == <<"{">> \o SitemapNS \o <<"}">> \o tag

\* an element name in some other namespace
OtherQualified(tag) == <<"{","n","}">> \o tag

T_loc == <<"l","o","c">>

T_a == <<"a">>

T_link == <<"l","i","n","k">>

T_url == <<"u","r","l">>

T_urlset == <<"u","r","l","s","e","t">>

T_item == <<"i","t","e","m">>

T_root == <<"r","o","o","t">>

T_img == <<"i","m","g">>

T_datalink == <<"d","a","t","a","-","l","i","n","k">>

A_href == <<"h","r","e","f">>

A_src == <<"s","r","c">>

A_url == <<"u","r","l">>

A_id == <<"i","d">>

A_datahref == <<"d","a","t","a","-","h","r","e","f">>

S_example == <<"h","t","t","p","s",":","/","/","e","x","a","m","p","l","e",".","c","o","m">>

S_sourceUrl == S_example \o <<"/","i","n","d","e","x",".","x","m","l">>

S_sourceFile == <<"s",".","x","m","l">>

S_exampleA == S_example \o <<"/","a">>

S_examplePage == S_example \o <<"/","p","a","g","e">>

S_feedItem == S_example \o <<"/","f","e","e","d","-","i","t","e","m">>

S_page == <<"/","p","a","g","e">>

S_httpsX == <<"h","t","t","p","s",":","/","/","x">>

S_text == <<"t","e","x","t">>

S_upY == <<".",".","/","y">>

S_z == <<"z">>

S_badHost == <<"/","/","[">>

S_tail == <<"t","a","i","l">>

S_blank == <<" ","\n"," ">>

S_paddedA == <<" "," ">> \o S_exampleA \o <<"\n">>

(***************************************************************************)
(* Documents                                                               *)
(***************************************************************************)

\* <urlset><url><loc>https://example.com/a</loc></url></urlset>, sitemap namespace
DocSitemap ==
  Elem(SitemapQualified(T_urlset), NoAttrib,
    Elem(SitemapQualified(T_url), NoAttrib,
      Elem(SitemapQualified(T_loc), NoAttrib, <<Text(S_exampleA)>>)))

\* <a href="/page"/>
DocAHref == Elem(T_a, (A_href :> S_page), <<>>)

\* <link>https://example.com/feed-item</link>
DocLinkText == Elem(T_link, NoAttrib, <<Text(S_feedItem)>>)

\* <data-link>https://x</data-link>
DocDataLink == Elem(T_datalink, NoAttrib, <<Text(S_httpsX)>>)

\* <root id="z"><item>text</item><item id="/page"/></root>
DocNoMatch ==
  Elem(T_root, (A_id :> S_z),
    Elem(T_item, NoAttrib, <<Text(S_text)>>) \o Elem(T_item, (A_id :> S_page), <<>>))

\* <root><a href="https://example.com/a" src="">  https://example.com/a\n</a>
\*   <item><item><n:loc>z</n:loc></item></item><url> \n </url></root>
DocMixed ==
  Elem(T_root, NoAttrib,
    Elem(T_a, (A_href :> S_exampleA) @@ (A_src :> <<>>), <<Text(S_paddedA)>>)
    \o Elem(T_item, NoAttrib,
         Elem(T_item, NoAttrib, Elem(OtherQualified(T_loc), NoAttrib, <<Text(S_z)>>)))
    \o Elem(T_url, NoAttrib, <<Text(S_blank)>>))

\* <img src="z" href="../y" url="/page" data-href="text"/>
DocManyAttrs ==
  Elem(T_img, (A_src :> S_z) @@ (A_href :> S_upY) @@ (A_url :> S_page)
                @@ (A_datahref :> S_text), <<>>)

\* <root><a href="/page" src="//["/><loc>z</loc></root>
DocBadHost ==
  Elem(T_root, NoAttrib,
    Elem(T_a, (A_href :> S_page) @@ (A_src :> S_badHost), <<>>)
    \o Elem(T_loc, NoAttrib, <<Text(S_z)>>))

\* <loc><item/>tail</loc>: the character data follows a child
DocTailText == Elem(T_loc, NoAttrib, Elem(T_item, NoAttrib, <<>>) \o <<Text(S_tail)>>)

\* <a><item></a>: an unterminated tag
DocUnterminated == <<Open(T_a, NoAttrib), Open(T_item, NoAttrib), Close(T_a)>>

\* <loc>z  (the end tag is missing)
DocUnclosed == <<Open(T_loc, NoAttrib), Text(S_z)>>

\* nothing at all
DocEmpty == <<>>

\* The size of the generated documents, in elements.
MaxNodes == 4

Digit(k) == AsciiOrder[6 + k]

\* A generated element: at odd depth <loc>path...</loc>, at even depth
\* <item href="/path">...</item>; path spells the element's position.
GenElem(path, inner) ==
  IF Len(path) % 2 = 1
  THEN Elem(T_loc, NoAttrib, <<Text(path)>> \o inner)
  ELSE Elem(T_item, (A_href :> (<<"/">> \o path)), inner)

\* every ordered forest of n elements whose first tree is the k-th child of path
RECURSIVE Forest(_, _, _)
Forest(n, path, k) ==
  IF n = 0 THEN {<<>>}
  ELSE UNION { { GenElem(path \o <<Digit(k)>>, inner) \o rest :
                   inner \in Forest(m - 1, path \o <<Digit(k)>>, 1),
                   rest \in Forest(n - m, path, k + 1) } : m \in 1..n }

\* the documents of every tree shape of up to MaxNodes elements
GeneratedDocs ==
  UNION { { GenElem(<<"1">>, inner) : inner \in Forest(n - 1, <<"1">>, 1) } : n \in 1..MaxNodes }

WellFormedDocs ==
  {DocSitemap, DocAHref, DocLinkText, DocDataLink, DocNoMatch, DocMixed,
   DocManyAttrs, DocBadHost, DocTailText} \cup GeneratedDocs

MalformedDocs == {DocUnterminated, DocUnclosed, DocEmpty}

XmlContents == WellFormedDocs \cup MalformedDocs

(***************************************************************************)
(* State                                                                   *)
(***************************************************************************)

VARIABLES
  pc,               \* where extract_links_from_xml stands
  xml_source, is_url, custom_tags, custom_attrs,     \* its arguments
  link_tags, link_attributes, links,                 \* its locals, lines 24-30
  xml_content,      \* the content fetched or read, lines 38 and 42
  nodes,            \* the element table of root, line 46
  stack,            \* the frames of find_links: [el, ci], ci = 0 before the body
                    \* has run, then the index of the next child to descend into
  exc,              \* the exception raised inside the try block, "none" if none
  handler,          \* the except clause that ran, "none" if none
  result,           \* the value returned to the caller
  escaped,          \* an exception left extract_links_from_xml
  visited,          \* history: the elements whose body ran, in order
  attrAdded,        \* history: <<element, attribute, link>> added at line 62
  textAdded,        \* history: <<element, link>> added at line 69
  world,            \* the contents the sources may hold
  calls, log,       \* history: number of calls, and the finished calls
  rpc,              \* where run stands
  sitemap,          \* run: the loop variable i of line 108
  run_links, cursor,    \* run: links of line 111 and the position of line 115
  contextClosed, browserClosed,    \* run: how often each close() was called
  pageUses,         \* run: history, the links visited since line 111 and
                    \* whether the visit raised
  homeFailed,       \* run: history, line 100 raised
  lateUse           \* run: history, the page was used after context.close()

xvars == <<pc, xml_source, is_url, custom_tags, custom_attrs, link_tags,
           link_attributes, links, xml_content, nodes, stack, exc, handler,
           result, escaped, visited, attrAdded, textAdded>>

hvars == <<world, calls, log>>

rvars == <<rpc, sitemap, run_links, cursor, contextClosed, browserClosed,
           pageUses, homeFailed, lateUse>>

vars == <<xvars, hvars, rvars>>

(***************************************************************************)
(* extract_links_from_xml, lines 8-91                                      *)
(***************************************************************************)

\* an optional argument: None, or a list
NoneValue == [isNone |-> TRUE]

Some(v) == [isNone |-> FALSE, v |-> v]

\* `x or []`
OrEmpty(x) == IF x.isNone THEN <<>> ELSE x.v

default_tags == <<T_loc, T_a, T_link, T_url>>

default_attrs == <<A_href, A_src, A_url>>

\* A mutant of line 24: custom tags replace the defaults when given.
LinkTagsReplaced(custom) == IF Len(OrEmpty(custom)) > 0 THEN custom.v ELSE default_tags

\* line 24
LinkTags(custom) == default_tags \o OrEmpty(custom)

\* line 25
LinkAttributes(custom) == default_attrs \o OrEmpty(custom)

\* A mutant of line 30: the set of an earlier call is kept.
LeakedLinkSet == IF pc = "done" THEN links ELSE {}

\* line 30, links = set()
EmptyLinkSet == {}

\* line 51, element.tag.split('}')[-1]
tag_name(etag) == Last(Split(etag, "}"))

\* A mutant of line 66: the tag test always succeeds.
TagMatchesAlways(etag, tag) == TRUE

\* line 66
TagMatches(etag, tag) == tag_name(etag) = tag \/ etag = SitemapQualified(tag)

\* line 58, `if link:`
IsLinkValue(value) == Len(value) > 0

\* lines 60-61: the link an attribute value becomes; urljoin may raise
AttrLink(value) ==
  IF is_url THEN urljoin(xml_source, value) ELSE [raises |-> FALSE, val |-> value]

\* lines 55-62: the loop over link_attributes at element e
RECURSIVE AttrLoop(_, _, _)
AttrLoop(e, attrs, acc) ==
  LET attr == attrs[1]
      Add(r) == IF r.raises THEN [acc EXCEPT !.raises = TRUE]
                ELSE [acc EXCEPT !.links = @ \cup {r.val},
                                 !.byAttr = @ \cup {<<e, attr, r.val>>}]
      Step(a) == AttrLoop(e, Tail(attrs), a)
  IN IF Len(attrs) = 0 \/ acc.raises THEN acc
     ELSE IF attr \in DOMAIN nodes[e].attrib /\ IsLinkValue(nodes[e].attrib[attr])
          THEN Step(Add(AttrLink(nodes[e].attrib[attr])))
          ELSE AttrLoop(e, Tail(attrs), acc)

\* lines 65-69: the loop over link_tags at element e
RECURSIVE TagLoop(_, _, _)
TagLoop(e, tags, acc) ==
  LET text == nodes[e].text
      Add(link) == [acc EXCEPT !.links = @ \cup {link}, !.byText = @ \cup {<<e, link>>}]
      Step(a) == TagLoop(e, Tail(tags), a)
  IN IF Len(tags) = 0 THEN acc
     ELSE IF /\ TagMatches(nodes[e].tag, tags[1])
             /\ Len(text) > 0 /\ Len(Strip(text)) > 0
          THEN Step(Add(Strip(text)))
          ELSE TagLoop(e, Tail(tags), acc)

\* The exception classes each raised exception is an instance of.
ExceptionClasses(e) ==
  CASE e = "ConnectionError" -> {"ConnectionError", "RequestException", "OSError", "Exception"}
    [] e = "HTTPError" -> {"HTTPError", "RequestException", "OSError", "Exception"}
    [] e = "ParseError" -> {"ParseError", "SyntaxError", "Exception"}
    [] e = "FileNotFoundError" -> {"FileNotFoundError", "OSError", "Exception"}
    [] e = "PermissionError" -> {"PermissionError", "OSError", "Exception"}
    [] e = "ValueError" -> {"ValueError", "Exception"}

\* A mutant of lines 80-89: the ParseError clause and the catch-all are missing.
ExceptClausesIncomplete == <<"RequestException", "FileNotFoundError">>

\* lines 80, 83, 86, 89: the except clauses, in order
ExceptClauses == <<"RequestException", "ParseError", "FileNotFoundError", "Exception">>

\* the first clause that catches e, 0 when none does
CatchingClause(e) ==
  IF \E k \in 1..Len(ExceptClauses) : ExceptClauses[k] \in ExceptionClasses(e)
  THEN CHOOSE k \in 1..Len(ExceptClauses) :
         /\ ExceptClauses[k] \in ExceptionClasses(e)
         /\ \A m \in 1..(k-1) : ExceptClauses[m] \notin ExceptionClasses(e)
  ELSE 0

\* lines 19-30: the call, up to the try block
Enter(src, isurl, ctags, cattrs) ==
  /\ pc' = "try"
  /\ xml_source' = src /\ is_url' = isurl
  /\ custom_tags' = ctags /\ custom_attrs' = cattrs
  /\ link_tags' = LinkTags(ctags)
  /\ link_attributes' = LinkAttributes(cattrs)
  /\ links' = EmptyLinkSet
  /\ xml_content' = <<>> /\ nodes' = <<>> /\ stack' = <<>>
  /\ exc' = "none" /\ handler' = "none" /\ result' = <<>> /\ escaped' = FALSE
  /\ visited' = <<>> /\ attrAdded' = {} /\ textAdded' = {}

Raise(e) == pc' = "except" /\ exc' = e

\* lines 35-38: requests.get, raise_for_status, response.text
FetchUrl ==
  /\ pc = "try" /\ is_url
  /\ \/ \E e \in {"ConnectionError", "HTTPError"} : Raise(e) /\ UNCHANGED xml_content
     \/ \E c \in world : xml_content' = c /\ pc' = "parse" /\ UNCHANGED exc
  /\ UNCHANGED <<xml_source, is_url, custom_tags, custom_attrs, link_tags,
                 link_attributes, links, nodes, stack, handler, result, escaped,
                 visited, attrAdded, textAdded>>
  /\ UNCHANGED <<hvars, rvars>>

\* lines 40-42: open and read the file
ReadFile ==
  /\ pc = "try" /\ ~is_url
  /\ \/ \E e \in {"FileNotFoundError", "PermissionError"} : Raise(e) /\ UNCHANGED xml_content
     \/ \E c \in world : xml_content' = c /\ pc' = "parse" /\ UNCHANGED exc
  /\ UNCHANGED <<xml_source, is_url, custom_tags, custom_attrs, link_tags,
                 link_attributes, links, nodes, stack, handler, result, escaped,
                 visited, attrAdded, textAdded>>
  /\ UNCHANGED <<hvars, rvars>>

\* line 46 and the call of line 76
ParseContent ==
  /\ pc = "parse"
  /\ LET root == fromstring(xml_content)
     IN IF root.ok
        THEN /\ nodes' = root.nodes
             /\ stack' = <<[el |-> 1, ci |-> 0]>>
             /\ pc' = "walk"
             /\ UNCHANGED exc
        ELSE Raise("ParseError") /\ UNCHANGED <<nodes, stack>>
  /\ UNCHANGED <<xml_source, is_url, custom_tags, custom_attrs, link_tags,
                 link_attributes, links, xml_content, handler, result, escaped,
                 visited, attrAdded, textAdded>>
  /\ UNCHANGED <<hvars, rvars>>

\* lines 50-69: the body of find_links at the element of the top frame
FindLinksBody ==
  /\ pc = "walk" /\ Len(stack) > 0 /\ Last(stack).ci = 0
  /\ LET e == Last(stack).el
         a == AttrLoop(e, link_attributes,
                       [raises |-> FALSE, links |-> links, byAttr |-> attrAdded])
         t == TagLoop(e, link_tags, [links |-> a.links, byText |-> textAdded])
     IN /\ visited' = Append(visited, e)
        /\ attrAdded' = a.byAttr
        /\ IF a.raises
           THEN /\ Raise("ValueError")
                /\ links' = a.links
                /\ UNCHANGED <<textAdded, stack>>
           ELSE /\ links' = t.links
                /\ textAdded' = t.byText
                /\ stack' = [stack EXCEPT ![Len(stack)].ci = 1]
                /\ UNCHANGED <<pc, exc>>
  /\ UNCHANGED <<xml_source, is_url, custom_tags, custom_attrs, link_tags,
                 link_attributes, xml_content, nodes, handler, result, escaped>>
  /\ UNCHANGED <<hvars, rvars>>

\* lines 72-73: the next child of the top frame's element is entered
FindLinksRecurse ==
  /\ pc = "walk" /\ Len(stack) > 0
  /\ LET f == Last(stack)
     IN /\ f.ci >= 1 /\ f.ci <= Len(nodes[f.el].children)
        /\ stack' = Append([stack EXCEPT ![Len(stack)].ci = f.ci + 1],
                           [el |-> nodes[f.el].children[f.ci], ci |-> 0])
  /\ UNCHANGED <<pc, xml_source, is_url, custom_tags, custom_attrs, link_tags,
                 link_attributes, links, xml_content, nodes, exc, handler, result,
                 escaped, visited, attrAdded, textAdded>>
  /\ UNCHANGED <<hvars, rvars>>

\* find_links returns: to its caller's loop, or to line 77
FindLinksReturn ==
  /\ pc = "walk" /\ Len(stack) > 0
  /\ LET f == Last(stack)
     IN /\ f.ci > Len(nodes[f.el].children)
        /\ stack' = Take(stack, Len(stack) - 1)
        /\ pc' = IF Len(stack) = 1 THEN "return" ELSE "walk"
  /\ UNCHANGED <<xml_source, is_url, custom_tags, custom_attrs, link_tags,
                 link_attributes, links, xml_content, nodes, exc, handler, result,
                 escaped, visited, attrAdded, textAdded>>
  /\ UNCHANGED <<hvars, rvars>>

\* lines 77-78
ReturnSorted ==
  /\ pc = "return"
  /\ result' = Sorted(links)
  /\ pc' = "done"
  /\ UNCHANGED <<xml_source, is_url, custom_tags, custom_attrs, link_tags,
                 link_attributes, links, xml_content, nodes, stack, exc, handler,
                 escaped, visited, attrAdded, textAdded>>
  /\ UNCHANGED <<hvars, rvars>>

\* lines 80-91: the first matching clause returns [], the stack being unwound;
\* an exception no clause matches leaves the function
Except ==
  /\ pc = "except"
  /\ LET k == CatchingClause(exc)
     IN IF k = 0
        THEN escaped' = TRUE /\ UNCHANGED <<result, handler>>
        ELSE result' = <<>> /\ handler' = ExceptClauses[k] /\ UNCHANGED escaped
  /\ stack' = <<>>
  /\ pc' = "done"
  /\ UNCHANGED <<xml_source, is_url, custom_tags, custom_attrs, link_tags,
                 link_attributes, links, xml_content, nodes, exc, visited,
                 attrAdded, textAdded>>
  /\ UNCHANGED <<hvars, rvars>>

\* the try block after the content is at hand, and the except clauses
Body ==
  \/ ParseContent
  \/ FindLinksBody
  \/ FindLinksRecurse
  \/ FindLinksReturn
  \/ ReturnSorted
  \/ Except

(***************************************************************************)
(* Callers of the function with arbitrary arguments                        *)
(***************************************************************************)

Sources == {<<S_sourceUrl, TRUE>>, <<S_sourceFile, FALSE>>}

CustomTagChoices == {NoneValue, Some(<<>>), Some(<<T_datalink>>)}

CustomAttrChoices == {NoneValue, Some(<<A_datahref>>)}

InitExtract ==
  /\ pc = "idle"
  /\ xml_source = <<>> /\ is_url = FALSE
  /\ custom_tags = NoneValue /\ custom_attrs = NoneValue
  /\ link_tags = <<>> /\ link_attributes = <<>> /\ links = {}
  /\ xml_content = <<>> /\ nodes = <<>> /\ stack = <<>>
  /\ exc = "none" /\ handler = "none" /\ result = <<>> /\ escaped = FALSE
  /\ visited = <<>> /\ attrAdded = {} /\ textAdded = {}
  /\ calls = 0 /\ log = {}

InitRun ==
  /\ rpc = "idle" /\ sitemap = 0 /\ run_links = <<>> /\ cursor = 0
  /\ contextClosed = 0 /\ browserClosed = 0
  /\ pageUses = <<>> /\ homeFailed = FALSE /\ lateUse = FALSE

Init == InitExtract /\ InitRun /\ world = XmlContents

\* one call with any arguments
Call ==
  /\ pc = "idle"
  /\ \E s \in Sources, ct \in CustomTagChoices, ca \in CustomAttrChoices :
       Enter(s[1], s[2], ct, ca)
  /\ calls' = calls + 1
  /\ UNCHANGED <<world, log, rvars>>

Next == Call \/ FetchUrl \/ ReadFile \/ Body

Spec == Init /\ [][Next]_vars

(***************************************************************************)
(* A sequence of calls, each finished call recorded with what it was given  *)
(***************************************************************************)

\* the most calls one behaviour of SpecCalls makes
MaxCalls == 3

FetchFailures == {"ConnectionError", "HTTPError", "FileNotFoundError", "PermissionError"}

\* what the finished call was given, and what it returned
Finished ==
  [source |-> xml_source, isurl |-> is_url, ctags |-> custom_tags,
   cattrs |-> custom_attrs,
   failure |-> IF exc \in FetchFailures THEN exc ELSE "none",
   content |-> xml_content, result |-> result, escaped |-> escaped]

InitCalls ==
  InitExtract /\ InitRun /\ world = {DocSitemap, DocDataLink}

CallAgain ==
  /\ pc \in {"idle", "done"} /\ calls < MaxCalls
  /\ \E s \in Sources, ct \in {NoneValue, Some(<<T_datalink>>)} :
       Enter(s[1], s[2], ct, NoneValue)
  /\ calls' = calls + 1
  /\ log' = IF pc = "done" THEN log \cup {Finished} ELSE log
  /\ UNCHANGED <<world, rvars>>

NextCalls == CallAgain \/ FetchUrl \/ ReadFile \/ Body

SpecCalls == InitCalls /\ [][NextCalls]_vars

(***************************************************************************)
(* run, lines 93-132                                                       *)
(***************************************************************************)

\* range(20), line 108
NumSitemaps == 20

\* str(n) for n >= 0
RECURSIVE DecimalStr(_)
DecimalStr(n) ==
  IF n < 10 THEN <<Digit(n)>> ELSE DecimalStr(n \div 10) \o <<Digit(n % 10)>>

\* f"https://www.zoomit.ir/sitemap/article-{i+1}.xml", line 109
SitemapUrl(i) ==
  <<"h","t","t","p","s",":","/","/","w","w","w",".","z","o","o","m","i","t",".",
    "i","r","/","s","i","t","e","m","a","p","/","a","r","t","i","c","l","e","-">>
  \o DecimalStr(i + 1) \o <<".","x","m","l">>

\* A mutant of lines 123-125: a failed visit leaves the loops.
AfterVisitAbort(raised) == IF raised THEN "except" ELSE "visit"

\* lines 116-125: where run goes after a visit; the except clause continues
AfterVisit(raised) == "visit"

\* lines 112-115: `if not links: continue`
AfterExtract(ls) == IF Len(ls) = 0 THEN "loop" ELSE "visit"

\* one use of the page
UsePage == lateUse' = (lateUse \/ contextClosed > 0)

\* lines 94-96: launch, new_context, new_page; a failure here leaves run
RunStart ==
  /\ rpc = "idle"
  /\ rpc' \in {"home", "raised"}
  /\ UNCHANGED <<sitemap, run_links, cursor, contextClosed, browserClosed,
                 pageUses, homeFailed, lateUse>>
  /\ UNCHANGED <<xvars, hvars>>

\* lines 99-101: page.goto of the homepage
GotoHome ==
  /\ rpc = "home"
  /\ UsePage
  /\ \/ rpc' = "overlay" /\ UNCHANGED homeFailed
     \/ rpc' = "except" /\ homeFailed' = TRUE
  /\ UNCHANGED <<sitemap, run_links, cursor, contextClosed, browserClosed, pageUses>>
  /\ UNCHANGED <<xvars, hvars>>

\* lines 102-106: the overlay is closed, or the failure is printed
CloseOverlay ==
  /\ rpc = "overlay"
  /\ UsePage
  /\ rpc' = "loop"
  /\ sitemap' = 0
  /\ UNCHANGED <<run_links, cursor, contextClosed, browserClosed, pageUses, homeFailed>>
  /\ UNCHANGED <<xvars, hvars>>

\* lines 108-111: the next sitemap is extracted
NextSitemap ==
  /\ rpc = "loop" /\ sitemap < NumSitemaps
  /\ Enter(SitemapUrl(sitemap), TRUE, NoneValue, NoneValue)
  /\ rpc' = "extract"
  /\ run_links' = <<>> /\ cursor' = 0 /\ pageUses' = <<>>
  /\ UNCHANGED <<sitemap, contextClosed, browserClosed, homeFailed, lateUse>>
  /\ UNCHANGED hvars

\* lines 111-115: the call has returned (or its exception arrives)
Extracted ==
  /\ rpc = "extract" /\ pc = "done"
  /\ IF escaped
     THEN rpc' = "except" /\ UNCHANGED <<run_links, cursor, sitemap>>
     ELSE /\ run_links' = result
          /\ rpc' = AfterExtract(result)
          /\ cursor' = 1
          /\ sitemap' = IF AfterExtract(result) = "loop" THEN sitemap + 1 ELSE sitemap
  /\ UNCHANGED <<contextClosed, browserClosed, pageUses, homeFailed, lateUse>>
  /\ UNCHANGED <<xvars, hvars>>

\* lines 116-125: one link is visited; goto or inner_text may raise
VisitLink ==
  /\ rpc = "visit" /\ cursor <= Len(run_links)
  /\ UsePage
  /\ \E raised \in BOOLEAN :
       /\ pageUses' = Append(pageUses, [link |-> run_links[cursor], raised |-> raised])
       /\ rpc' = AfterVisit(raised)
  /\ cursor' = cursor + 1
  /\ UNCHANGED <<sitemap, run_links, contextClosed, browserClosed, homeFailed>>
  /\ UNCHANGED <<xvars, hvars>>

\* line 115: the links are exhausted
LinksDone ==
  /\ rpc = "visit" /\ cursor > Len(run_links)
  /\ rpc' = "loop"
  /\ sitemap' = sitemap + 1
  /\ UNCHANGED <<run_links, cursor, contextClosed, browserClosed, pageUses,
                 homeFailed, lateUse>>
  /\ UNCHANGED <<xvars, hvars>>

\* line 108: range(20) is exhausted
SitemapsDone ==
  /\ rpc = "loop" /\ sitemap = NumSitemaps
  /\ rpc' = "finally"
  /\ UNCHANGED <<sitemap, run_links, cursor, contextClosed, browserClosed,
                 pageUses, homeFailed, lateUse>>
  /\ UNCHANGED <<xvars, hvars>>

\* lines 127-128
RunExcept ==
  /\ rpc = "except"
  /\ rpc' = "finally"
  /\ UNCHANGED <<sitemap, run_links, cursor, contextClosed, browserClosed,
                 pageUses, homeFailed, lateUse>>
  /\ UNCHANGED <<xvars, hvars>>

\* lines 130-131
CloseContext ==
  /\ rpc = "finally"
  /\ contextClosed' = contextClosed + 1
  /\ rpc' = "closing"
  /\ UNCHANGED <<sitemap, run_links, cursor, browserClosed, pageUses, homeFailed, lateUse>>
  /\ UNCHANGED <<xvars, hvars>>

\* line 132
CloseBrowser ==
  /\ rpc = "closing"
  /\ browserClosed' = browserClosed + 1
  /\ rpc' = "returned"
  /\ UNCHANGED <<sitemap, run_links, cursor, contextClosed, pageUses, homeFailed, lateUse>>
  /\ UNCHANGED <<xvars, hvars>>

NextRun ==
  \/ RunStart
  \/ GotoHome
  \/ CloseOverlay
  \/ NextSitemap
  \/ Extracted
  \/ VisitLink
  \/ LinksDone
  \/ SitemapsDone
  \/ RunExcept
  \/ CloseContext
  \/ CloseBrowser
  \/ FetchUrl
  \/ Body

SpecRun == Init /\ [][NextRun]_vars

(***************************************************************************)
(* Properties                                                              *)
(***************************************************************************)

Range(s) == {s[i] : i \in 1..Len(s)}

\* ET.fromstring succeeded in this call
Parsed == Len(nodes) > 0

\* the condition of lines 66-67 at element e, spelled from its parts
TextCondition(e) ==
  /\ Len(Strip(nodes[e].text)) > 0
  /\ \/ tag_name(nodes[e].tag) \in Range(link_tags)
     \/ \E t \in Range(link_tags) : nodes[e].tag = SitemapQualified(t)

\* the elements below and including e, parent first, children in document order
RECURSIVE Preorder(_)
RECURSIVE PreorderAll(_)
Preorder(e) == <<e>> \o PreorderAll(nodes[e].children)
PreorderAll(es) == IF Len(es) = 0 THEN <<>> ELSE Preorder(es[1]) \o PreorderAll(Tail(es))

\* C1: whatever the document and the configuration, the returned sequence is
\* strictly ascending in Python's string order: sorted, and no string twice.
C1_SortedNoDuplicates ==
  pc = "done" =>
    \A i, j \in 1..Len(result) : i < j => StrLess(result[i], result[j])

\* a call returned two or more links, one of them found both in an attribute
\* and in a text
C1_Witness ==
  /\ pc = "done" /\ exc = "none" /\ Len(result) >= 2
  /\ \E a \in attrAdded, t \in textAdded : a[3] = t[2]

\* C2: no exception leaves the function; a fetch or read failure and content
\* that is not well-formed XML end in the empty sequence.
C2_FailuresReturnEmpty ==
  /\ ~escaped
  /\ (pc = "done" /\ exc \in FetchFailures \cup {"ParseError"}) => result = <<>>
  /\ (pc = "done" /\ exc \notin FetchFailures /\ xml_content \in MalformedDocs)
       => (exc = "ParseError" /\ result = <<>>)

\* the unterminated tag was read, ParseError was caught by its clause
C2_Witness ==
  /\ pc = "done" /\ xml_content = DocUnterminated
  /\ exc = "ParseError" /\ handler = "ParseError" /\ result = <<>>

\* C3: with is_url true every link added from an attribute is the attribute's
\* value resolved against xml_source and every link added from a text is the
\* stripped text itself; <a href="/page"> gives https://example.com/page and
\* <link>https://example.com/feed-item</link> gives that text.
C3_AttributesResolvedTextNot ==
  is_url =>
    /\ \A a \in attrAdded :
         LET r == urljoin(xml_source, nodes[a[1]].attrib[a[2]])
         IN ~r.raises /\ a[3] = r.val
    /\ \A t \in textAdded : t[2] = Strip(nodes[t[1]].text)
    /\ (pc = "done" /\ exc = "none")
         => Range(result) = {a[3] : a \in attrAdded} \cup {t[2] : t \in textAdded}
    /\ (pc = "done" /\ xml_source = S_sourceUrl /\ xml_content = DocAHref)
         => result = <<S_examplePage>>
    /\ (pc = "done" /\ exc = "none" /\ xml_content = DocLinkText)
         => result = <<S_feedItem>>

\* a URL call returned a resolved attribute link that differs from the raw
\* value, and a text link that resolution would have changed
C3_Witness ==
  /\ pc = "done" /\ is_url /\ exc = "none"
  /\ \E a \in attrAdded : a[3] \in Range(result) /\ a[3] # nodes[a[1]].attrib[a[2]]
  /\ \E t \in textAdded : t[2] \in Range(result) /\ urljoin(xml_source, t[2]).val # t[2]

\* C4: in a finished call on a well-formed document, an element's trimmed text
\* is added, and is in the result, exactly when the text is non-empty after
\* trimming and the tag is recognized; the sitemap document yields
\* ["https://example.com/a"].
C4_TextAddedExactlyWhenRecognized ==
  (pc = "done" /\ Parsed) =>
    /\ \A e \in 1..Len(nodes) :
         TextCondition(e) <=>
           /\ <<e, Strip(nodes[e].text)>> \in textAdded
           /\ Strip(nodes[e].text) \in Range(result)
    /\ xml_content = DocSitemap => result = <<S_exampleA>>

\* no element carries a recognized attribute or has a recognized tag name
NoneRecognized ==
  /\ Parsed
  /\ \A e \in 1..Len(nodes) :
       /\ (DOMAIN nodes[e].attrib) \cap Range(link_attributes) = {}
       /\ tag_name(nodes[e].tag) \notin Range(link_tags)

\* C5: a well-formed document without recognized attributes and tags yields the
\* empty sequence, and every link of any result comes from a recognized
\* attribute or from the text of an element with a recognized tag.
C5_NothingRecognizedNothingReturned ==
  /\ (pc = "done" /\ NoneRecognized) => (result = <<>> /\ exc = "none")
  /\ pc = "done" => Range(result) \subseteq links
  /\ \A l \in links :
       \/ \E a \in attrAdded :
            /\ a[3] = l /\ a[2] \in Range(link_attributes)
            /\ a[2] \in DOMAIN nodes[a[1]].attrib
       \/ \E t \in textAdded :
            /\ t[2] = l /\ tag_name(nodes[t[1]].tag) \in Range(link_tags)

\* a document with texts and attributes, none recognized, was traversed
C5_Witness ==
  /\ pc = "done" /\ NoneRecognized /\ Len(visited) >= 3
  /\ \E e \in 1..Len(nodes) : Len(Strip(nodes[e].text)) > 0
  /\ \E e \in 1..Len(nodes) : \E a \in DOMAIN nodes[e].attrib : Len(nodes[e].attrib[a]) > 0

\* C6: the recognized tags and attributes are the defaults together with the
\* caller's additions; <data-link>https://x</data-link> yields its text exactly
\* when data-link was passed, and <link>...</link> yields its text whatever
\* was passed.
C6_ExtrasMergedWithDefaults ==
  /\ pc # "idle" =>
       /\ Range(link_tags) = {T_loc, T_a, T_link, T_url} \cup Range(OrEmpty(custom_tags))
       /\ Range(link_attributes) = {A_href, A_src, A_url} \cup Range(OrEmpty(custom_attrs))
  /\ (pc = "done" /\ exc = "none" /\ xml_content = DocDataLink)
       => result = IF T_datalink \in Range(OrEmpty(custom_tags)) THEN <<S_httpsX>> ELSE <<>>
  /\ (pc = "done" /\ exc = "none" /\ xml_content = DocLinkText)
       => result = <<S_feedItem>>

\* data-link was passed and the text of <data-link> was returned
C6_Witness ==
  /\ pc = "done" /\ xml_content = DocDataLink
  /\ custom_tags = Some(<<T_datalink>>) /\ result = <<S_httpsX>>

SameInputs(p, q) ==
  /\ p.source = q.source /\ p.isurl = q.isurl
  /\ p.ctags = q.ctags /\ p.cattrs = q.cattrs
  /\ p.failure = q.failure /\ p.content = q.content

\* C7: in a sequence of calls, two calls given the same arguments and the same
\* source content return the same value, and every call starts from the empty
\* link set and from the defaults merged with its own extras.
C7_CallsIndependent ==
  /\ \A p, q \in log \cup (IF pc = "done" THEN {Finished} ELSE {}) :
       SameInputs(p, q) => (p.result = q.result /\ p.escaped = q.escaped)
  /\ pc = "try" =>
       /\ links = {}
       /\ link_tags = default_tags \o OrEmpty(custom_tags)
       /\ link_attributes = default_attrs \o OrEmpty(custom_attrs)

\* the third call repeats the inputs of an earlier one that returned links,
\* with a call of another result in between
C7_Witness ==
  /\ pc = "done" /\ calls = 3
  /\ \E p, q \in log :
       /\ SameInputs(p, Finished) /\ p.result # <<>>
       /\ q.result # p.result /\ q.ctags # p.ctags

\* C8: the traversal of a well-formed document visits every element exactly
\* once, parent before children and children in document order, and every
\* recognized text at any depth is in the result.
C8_EveryElementVisitedOnce ==
  (pc = "done" /\ Parsed) =>
    /\ visited = Preorder(1)
    /\ Len(visited) = Len(nodes)
    /\ \A e \in 1..Len(nodes) : TextCondition(e) => Strip(nodes[e].text) \in Range(result)

\* C9: in a finished call on a well-formed document, every recognized
\* attribute present with a non-empty value has contributed a link that is in
\* the result, the value itself when is_url is false; an empty value has
\* contributed nothing.
C9_EveryAttributeContributes ==
  (pc = "done" /\ Parsed) =>
    \A e \in 1..Len(nodes) :
      \A a \in Range(link_attributes) \cap DOMAIN nodes[e].attrib :
        IF Len(nodes[e].attrib[a]) = 0
        THEN ~\E x \in attrAdded : x[1] = e /\ x[2] = a
        ELSE \E x \in attrAdded :
               /\ x[1] = e /\ x[2] = a /\ x[3] \in Range(result)
               /\ ~is_url => x[3] = nodes[e].attrib[a]

\* run has created browser, context and page
Created == rpc \notin {"idle", "raised"}

====
